---- MODULE Spec2Model ----
(***************************************************************************)
(* Model of src/src/matcher.rs: the matcher function library of `double`.  *)
(* Every matcher function is an operator named as in the source.  A call   *)
(* of a matcher function is a small state machine (pc, fn, arg, params,    *)
(* idx, trace, ret): `trace` records every callee the function invokes     *)
(* (child matchers, the ULP comparison), in order.  The loops of all_of    *)
(* and any_of advance one iteration per step.                              *)
(***************************************************************************)
EXTENDS Integers, Sequences, FiniteSets

VARIABLES pc, fn, arg, params, idx, trace, ret, bound, captured, history

vars == <<pc, fn, arg, params, idx, trace, ret, bound, captured, history>>

callVars == <<pc, fn, arg, params, idx, trace, ret>>

boundVars == <<bound, captured, history>>

(***************************************************************************)
(* Bounds of the model.                                                    *)
(***************************************************************************)
\* numeric candidates and targets are 0..MaxVal, plus NaN
MaxVal == 1

\* longest child list handed to all_of / any_of
MaxLen == 3

\* longest string handed to eq_nocase / ne_nocase
MaxStrLen == 2

\* exponent width of the scaled-down float formats
ExpBits == 2

\* mantissa width of the scaled-down f32
MantBits32 == 2

\* mantissa width of the scaled-down f64
MantBits64 == 3

\* most invocations of one bound matcher
MaxCalls == 3

(***************************************************************************)
(* Values of the ordered type T.  T is instantiated with a float-like     *)
(* type: numbers and NaN, so that T is PartialEq + PartialOrd but neither  *)
(* Eq nor Ord.                                                             *)
(***************************************************************************)
Num(n) == [k |-> "num", n |-> n]

NaN == [k |-> "nan", n |-> 0]

Vals == {Num(n) : n \in 0..MaxVal} \cup {NaN}

\* PartialOrd::partial_cmp of T: None when either side is NaN
partial_cmp(a, b) ==
    IF a.k = "nan" \/ b.k = "nan" THEN "None"
    ELSE IF a.n < b.n THEN "Less"
    ELSE IF a.n > b.n THEN "Greater"
    ELSE "Equal"

\* PartialEq::eq of T: NaN equals nothing
partial_eq(a, b) == a.k = "num" /\ b.k = "num" /\ a.n = b.n

\* the operators <, <=, >, >= as PartialOrd provides them
op_lt(a, b) == partial_cmp(a, b) = "Less"

op_le(a, b) == partial_cmp(a, b) \in {"Less", "Equal"}

op_gt(a, b) == partial_cmp(a, b) = "Greater"

op_ge(a, b) == partial_cmp(a, b) \in {"Greater", "Equal"}

(***************************************************************************)
(* Comparison matchers.                                                    *)
(***************************************************************************)
any(a) == TRUE

eq(a, target_val) == partial_eq(a, target_val)

ne(a, target_val) == ~partial_eq(a, target_val)

lt(a, target_val) == op_lt(a, target_val)

le(a, target_val) == op_le(a, target_val)

gt(a, target_val) == op_gt(a, target_val)

ge(a, target_val) == op_ge(a, target_val)

between_exc(a, low, high) == op_lt(low, a) /\ op_lt(a, high)

\* a range that excludes its upper end
between_inc_mut(a, low, high) == op_le(low, a) /\ op_lt(a, high)

between_inc(a, low, high) == op_le(low, a) /\ op_le(a, high)

(***************************************************************************)
(* Bound matchers.  Bind is the partial application p!(f, p1, .., pN) of   *)
(* the generated macro: it captures the N parameters; Apply is the         *)
(* invocation of the resulting single-argument callable, which calls the   *)
(* matcher function with the candidate prepended.                          *)
(***************************************************************************)
RECURSIVE Apply(_, _)

Bind(f, p) == [f |-> f, p |-> p]

\* one callee invocation, as recorded in the trace of a call
Invocation(callee, i, r) == [callee |-> callee, i |-> i, ret |-> r]

\* the result of a call together with the callees it invoked, in order
Outcome(r, calls) == [ret |-> r, calls |-> calls]

(***************************************************************************)
(* Option / Result unwrapping matchers.                                    *)
(***************************************************************************)
None == [tag |-> "None", v |-> NaN]

Some(x) == [tag |-> "Some", v |-> x]

Ok(x) == [tag |-> "Ok", v |-> x]

Err(x) == [tag |-> "Err", v |-> x]

\* is_some without the dispatch on the variant
is_some_mut(a, matcher) ==
    LET r == Apply(matcher, a.v)
    IN  Outcome(r, <<Invocation("matcher", 1, r)>>)

is_some(a, matcher) ==
    IF a.tag = "Some"
    THEN LET r == Apply(matcher, a.v)
         IN  Outcome(r, <<Invocation("matcher", 1, r)>>)
    ELSE Outcome(FALSE, <<>>)

is_ok(a, matcher) ==
    IF a.tag = "Ok"
    THEN LET r == Apply(matcher, a.v)
         IN  Outcome(r, <<Invocation("matcher", 1, r)>>)
    ELSE Outcome(FALSE, <<>>)

is_err(a, matcher) ==
    IF a.tag = "Ok"
    THEN Outcome(FALSE, <<>>)
    ELSE LET r == Apply(matcher, a.v)
         IN  Outcome(r, <<Invocation("matcher", 1, r)>>)

(***************************************************************************)
(* Composite matchers.                                                     *)
(***************************************************************************)
\* not without the negation
not_mut(a, matcher) == Apply(matcher, a)

not(a, matcher) == ~Apply(matcher, a)

\* a loop body that returns on the first child only
all_of_body_first(a, matchers, i) ==
    LET r == Apply(matchers[i], a)
    IN  [call |-> Invocation("matchers", i, r), returns |-> (~r /\ i = 1), ret |-> FALSE]

\* one iteration of all_of's loop, on child i: the child is invoked, and
\* the function returns false when it does not match
all_of_body(a, matchers, i) ==
    LET r == Apply(matchers[i], a)
    IN  [call |-> Invocation("matchers", i, r), returns |-> ~r, ret |-> FALSE]

\* a loop body that returns on the first child only
any_of_body_first(a, matchers, i) ==
    LET r == Apply(matchers[i], a)
    IN  [call |-> Invocation("matchers", i, r), returns |-> (r /\ i = 1), ret |-> TRUE]

\* one iteration of any_of's loop, on child i: the child is invoked, and
\* the function returns true when it matches
any_of_body(a, matchers, i) ==
    LET r == Apply(matchers[i], a)
    IN  [call |-> Invocation("matchers", i, r), returns |-> r, ret |-> TRUE]

\* a loop that keeps the result of the child it invoked last
all_of_from_last(a, matchers, i) ==
    IF Len(matchers) = 0 THEN TRUE ELSE Apply(matchers[Len(matchers)], a)

RECURSIVE all_of_from(_, _, _)
\* all_of's loop from child i on, and the value after the loop
all_of_from(a, matchers, i) ==
    IF i > Len(matchers) THEN TRUE
    ELSE LET b == all_of_body(a, matchers, i)
         IN  IF b.returns THEN b.ret ELSE all_of_from(a, matchers, i + 1)

all_of(a, matchers) == all_of_from(a, matchers, 1)

RECURSIVE any_of_from(_, _, _)
\* any_of's loop from child i on, and the value after the loop
any_of_from(a, matchers, i) ==
    IF i > Len(matchers) THEN FALSE
    ELSE LET b == any_of_body(a, matchers, i)
         IN  IF b.returns THEN b.ret ELSE any_of_from(a, matchers, i + 1)

any_of(a, matchers) == any_of_from(a, matchers, 1)

Apply(m, x) ==
    CASE m.f = "any" -> any(x)
      [] m.f = "eq" -> eq(x, m.p[1])
      [] m.f = "ne" -> ne(x, m.p[1])
      [] m.f = "lt" -> lt(x, m.p[1])
      [] m.f = "le" -> le(x, m.p[1])
      [] m.f = "gt" -> gt(x, m.p[1])
      [] m.f = "ge" -> ge(x, m.p[1])
      [] m.f = "between_exc" -> between_exc(x, m.p[1], m.p[2])
      [] m.f = "between_inc" -> between_inc(x, m.p[1], m.p[2])
      [] m.f = "is_some" -> is_some(x, m.p[1]).ret
      [] m.f = "is_ok" -> is_ok(x, m.p[1]).ret
      [] m.f = "is_err" -> is_err(x, m.p[1]).ret
      [] m.f = "not" -> not(x, m.p[1])
      [] m.f = "all_of" -> all_of(x, m.p[1])
      [] m.f = "any_of" -> any_of(x, m.p[1])

(***************************************************************************)
(* Floats.  A float is its bit pattern, sign | exponent | mantissa, in a   *)
(* scaled-down IEEE-754 format: fmt.e exponent bits and fmt.m mantissa     *)
(* bits.  f32 and f64 differ in the width only.                            *)
(***************************************************************************)
F32 == [e |-> ExpBits, m |-> MantBits32]

F64 == [e |-> ExpBits, m |-> MantBits64]

Width(fmt) == 1 + fmt.e + fmt.m

Floats(fmt) == 0..(2^Width(fmt) - 1)

SignBit(fmt, b) == b \div 2^(fmt.e + fmt.m)

Magnitude(fmt, b) == b % 2^(fmt.e + fmt.m)

Exponent(fmt, b) == Magnitude(fmt, b) \div 2^fmt.m

Mantissa(fmt, b) == Magnitude(fmt, b) % 2^fmt.m

\* f32::is_nan / f64::is_nan: all exponent bits set, mantissa not zero
is_nan(fmt, b) == Exponent(fmt, b) = 2^fmt.e - 1 /\ Mantissa(fmt, b) # 0

\* f32::is_sign_positive
is_sign_positive(fmt, b) == SignBit(fmt, b) = 0

\* the IEEE-754 == of two floats: NaN equals nothing, +0 equals -0
float_eq(fmt, a, b) ==
    /\ ~is_nan(fmt, a)
    /\ ~is_nan(fmt, b)
    /\ (a = b \/ (Magnitude(fmt, a) = 0 /\ Magnitude(fmt, b) = 0))

\* to_bits() as a signed integer of the float's width
as_signed(fmt, b) == IF b >= 2^(Width(fmt) - 1) THEN b - 2^Width(fmt) ELSE b

\* wrapping_sub on signed integers of the float's width
wrapping_sub(fmt, x, y) == as_signed(fmt, (x - y) % 2^Width(fmt))

\* float_cmp's Ulps::ulps: the difference of the bit patterns
ulps(fmt, a, b) == wrapping_sub(fmt, as_signed(fmt, a), as_signed(fmt, b))

\* float_cmp's ApproxEqUlps::approx_eq_ulps
approx_eq_ulps(fmt, a, b, tolerance) ==
    IF float_eq(fmt, a, b) THEN TRUE
    ELSE IF is_sign_positive(fmt, a) # is_sign_positive(fmt, b) THEN FALSE
    ELSE LET diff == ulps(fmt, a, b)
         IN  diff >= -tolerance /\ diff <= tolerance

\* the else branch of the four float matchers: the ULP comparison is consulted
UlpsOutcome(fmt, a, target_val) ==
    LET r == approx_eq_ulps(fmt, a, target_val, 2)
    IN  Outcome(r, <<Invocation("approx_eq_ulps", 1, r)>>)

\* f32_eq without the NaN check
f32_eq_mut(a, target_val) == UlpsOutcome(F32, a, target_val)

f32_eq(a, target_val) ==
    IF is_nan(F32, target_val) /\ is_nan(F32, a)
    THEN Outcome(FALSE, <<>>)
    ELSE UlpsOutcome(F32, a, target_val)

f64_eq(a, target_val) ==
    IF is_nan(F64, target_val) /\ is_nan(F64, a)
    THEN Outcome(FALSE, <<>>)
    ELSE UlpsOutcome(F64, a, target_val)

nan_sensitive_f32_eq(a, target_val) ==
    IF is_nan(F32, target_val) /\ is_nan(F32, a)
    THEN Outcome(TRUE, <<>>)
    ELSE UlpsOutcome(F32, a, target_val)

nan_sensitive_f64_eq(a, target_val) ==
    IF is_nan(F64, target_val) /\ is_nan(F64, a)
    THEN Outcome(TRUE, <<>>)
    ELSE UlpsOutcome(F64, a, target_val)

(***************************************************************************)
(* Strings.  A string is a sequence of characters.  "a" and "A" are a      *)
(* cased pair; "U1D400" is MATHEMATICAL BOLD CAPITAL A, an uppercase       *)
(* letter that has no lowercase mapping.                                   *)
(***************************************************************************)
Chars == {"a", "A", "U1D400"}

Strings == UNION {[1..n -> Chars] : n \in 0..MaxStrLen}

\* char::is_uppercase
is_uppercase(c) == c \in {"A", "U1D400"}

\* char::to_lowercase: the lowercase mapping, or the character itself
char_to_lowercase(c) == IF c = "A" THEN "a" ELSE c

\* str::to_lowercase
to_lowercase(s) == [i \in 1..Len(s) |-> char_to_lowercase(s[i])]

\* eq_nocase folding both sides
eq_nocase_mut(a, string) == to_lowercase(a) = to_lowercase(string)

eq_nocase(a, string) == to_lowercase(a) = string

ne_nocase(a, string) == to_lowercase(a) # string

(***************************************************************************)
(* Inputs of the calls.                                                    *)
(***************************************************************************)
\* the bound matchers handed to the higher-order matchers as children
Child ==
    {Bind("any", <<>>)} \cup {Bind(f, <<v>>) : f \in {"eq", "le", "ge"}, v \in Vals}

MatcherLists == UNION {[1..n -> Child] : n \in 0..MaxLen}

Options == {None} \cup {Some(v) : v \in Vals}

Results == {Ok(v) : v \in Vals} \cup {Err(v) : v \in Vals}

(***************************************************************************)
(* A call of a matcher function.  pc is "idle" before a call, "run" inside *)
(* the loop of all_of / any_of and "done" once the function has returned   *)
(* `ret`; `trace` holds the callees invoked so far.                        *)
(***************************************************************************)
Unbound == [f |-> "unbound", p |-> <<>>]

\* the candidate and the parameters as a call holds them: a float by its
\* bits, a string by its characters, a Vec by its items
Float(b) == [bits |-> b]

Str(s) == [chars |-> s]

Vec(ms) == [items |-> ms]

\* no candidate: no call is in progress
NoArg == [tag |-> "none"]

Init ==
    /\ pc = "idle"
    /\ fn = "none"
    /\ arg = NoArg
    /\ params = <<>>
    /\ idx = 0
    /\ trace = <<>>
    /\ ret = FALSE
    /\ bound = Unbound
    /\ captured = <<>>
    /\ history = <<>>

\* a function that returns within one step: its outcome is recorded
Return(f, a, p, out) ==
    /\ pc' = "done"
    /\ fn' = f
    /\ arg' = a
    /\ params' = p
    /\ idx' = 0
    /\ trace' = out.calls
    /\ ret' = out.ret
    /\ UNCHANGED boundVars

CallLe ==
    /\ pc = "idle"
    /\ \E a \in Vals, t \in Vals :
           Return("le", a, <<t>>, Outcome(le(a, t), <<>>))

CallGe ==
    /\ pc = "idle"
    /\ \E a \in Vals, t \in Vals :
           Return("ge", a, <<t>>, Outcome(ge(a, t), <<>>))

CallBetweenInc ==
    /\ pc = "idle"
    /\ \E a \in Vals, lo \in Vals, hi \in Vals :
           Return("between_inc", a, <<lo, hi>>, Outcome(between_inc(a, lo, hi), <<>>))

CallIsSome ==
    /\ pc = "idle"
    /\ \E a \in Options, m \in Child :
           Return("is_some", a, <<m>>, is_some(a, m))

CallIsOk ==
    /\ pc = "idle"
    /\ \E a \in Results, m \in Child :
           Return("is_ok", a, <<m>>, is_ok(a, m))

CallIsErr ==
    /\ pc = "idle"
    /\ \E a \in Results, m \in Child :
           Return("is_err", a, <<m>>, is_err(a, m))

CallF32Eq ==
    /\ pc = "idle"
    /\ \E a \in Floats(F32), t \in Floats(F32) :
           Return("f32_eq", Float(a), <<Float(t)>>, f32_eq(a, t))

CallF64Eq ==
    /\ pc = "idle"
    /\ \E a \in Floats(F64), t \in Floats(F64) :
           Return("f64_eq", Float(a), <<Float(t)>>, f64_eq(a, t))

CallNanSensitiveF32Eq ==
    /\ pc = "idle"
    /\ \E a \in Floats(F32), t \in Floats(F32) :
           Return("nan_sensitive_f32_eq", Float(a), <<Float(t)>>, nan_sensitive_f32_eq(a, t))

CallNanSensitiveF64Eq ==
    /\ pc = "idle"
    /\ \E a \in Floats(F64), t \in Floats(F64) :
           Return("nan_sensitive_f64_eq", Float(a), <<Float(t)>>, nan_sensitive_f64_eq(a, t))

CallEqNocase ==
    /\ pc = "idle"
    /\ \E a \in Strings, t \in Strings :
           Return("eq_nocase", Str(a), <<Str(t)>>, Outcome(eq_nocase(a, t), <<>>))

CallNeNocase ==
    /\ pc = "idle"
    /\ \E a \in Strings, t \in Strings :
           Return("ne_nocase", Str(a), <<Str(t)>>, Outcome(ne_nocase(a, t), <<>>))

\* not is called on a bound matcher, or on the negation of one
CallNot ==
    /\ pc = "idle"
    /\ \E a \in Vals, m \in Child \cup {Bind("not", <<c>>) : c \in Child} :
           Return("not", a, <<m>>, Outcome(not(a, m), <<>>))

\* entry of all_of / any_of: the loop starts at the first child
Enter(f, a, matchers) ==
    /\ pc' = "run"
    /\ fn' = f
    /\ arg' = a
    /\ params' = <<Vec(matchers)>>
    /\ idx' = 1
    /\ trace' = <<>>
    /\ ret' = FALSE
    /\ UNCHANGED boundVars

\* a loop that returns at its last child only
Iterate_noshort(b) ==
    /\ trace' = Append(trace, b.call)
    /\ IF b.returns /\ idx >= Len(params[1].items)
       THEN pc' = "done" /\ ret' = b.ret /\ idx' = idx
       ELSE pc' = "run" /\ ret' = ret /\ idx' = idx + 1
    /\ UNCHANGED <<fn, arg, params>>
    /\ UNCHANGED boundVars

\* one iteration of a loop whose body is b
Iterate(b) ==
    /\ trace' = Append(trace, b.call)
    /\ IF b.returns
       THEN pc' = "done" /\ ret' = b.ret /\ idx' = idx
       ELSE pc' = "run" /\ ret' = ret /\ idx' = idx + 1
    /\ UNCHANGED <<fn, arg, params>>
    /\ UNCHANGED boundVars

\* the loop is exhausted: the function returns r
Exhausted(r) ==
    /\ pc' = "done"
    /\ ret' = r
    /\ UNCHANGED <<fn, arg, params, idx, trace>>
    /\ UNCHANGED boundVars

CallAllOf ==
    /\ pc = "idle"
    /\ \E a \in Vals, ms \in MatcherLists : Enter("all_of", a, ms)

AllOfIter ==
    /\ pc = "run"
    /\ fn = "all_of"
    /\ idx <= Len(params[1].items)
    /\ Iterate(all_of_body(arg, params[1].items, idx))

AllOfExit ==
    /\ pc = "run"
    /\ fn = "all_of"
    /\ idx > Len(params[1].items)
    /\ Exhausted(TRUE)

CallAnyOf ==
    /\ pc = "idle"
    /\ \E a \in Vals, ms \in MatcherLists : Enter("any_of", a, ms)

AnyOfIter ==
    /\ pc = "run"
    /\ fn = "any_of"
    /\ idx <= Len(params[1].items)
    /\ Iterate(any_of_body(arg, params[1].items, idx))

AnyOfExit ==
    /\ pc = "run"
    /\ fn = "any_of"
    /\ idx > Len(params[1].items)
    /\ Exhausted(FALSE)

\* the caller drops the result; the next call may start
Reset ==
    /\ pc = "done"
    /\ pc' = "idle"
    /\ fn' = "none"
    /\ arg' = NoArg
    /\ params' = <<>>
    /\ idx' = 0
    /\ trace' = <<>>
    /\ ret' = FALSE
    /\ UNCHANGED boundVars

Next ==
    \/ CallLe
    \/ CallGe
    \/ CallBetweenInc
    \/ CallIsSome
    \/ CallIsOk
    \/ CallIsErr
    \/ CallF32Eq
    \/ CallF64Eq
    \/ CallNanSensitiveF32Eq
    \/ CallNanSensitiveF64Eq
    \/ CallEqNocase
    \/ CallNeNocase
    \/ CallNot
    \/ CallAllOf
    \/ AllOfIter
    \/ AllOfExit
    \/ CallAnyOf
    \/ AnyOfIter
    \/ AnyOfExit
    \/ Reset

Spec == Init /\ [][Next]_vars

(***************************************************************************)
(* The life of one bound matcher: it is constructed once, by binding the   *)
(* parameters of a matcher function, and then invoked any number of times. *)
(* `captured` keeps the parameters as they were at construction and        *)
(* `history` the (candidate, result) pair of every invocation, in order.   *)
(***************************************************************************)
\* plain bound matchers over T
Plain ==
    Child
      \cup {Bind(f, <<v>>) : f \in {"ne", "lt", "gt"}, v \in Vals}
      \cup {Bind(f, <<lo, hi>>) : f \in {"between_exc", "between_inc"}, lo \in Vals, hi \in Vals}

\* composite bound matchers: their parameters are bound matchers
Composite ==
    {Bind(f, <<m>>) : f \in {"not", "is_some", "is_ok", "is_err"}, m \in Child}
      \cup {Bind(f, <<ms>>) : f \in {"all_of", "any_of"}, ms \in [1..2 -> Child]}
      \cup {Bind("not", <<Bind("all_of", <<ms>>)>>) : ms \in [1..2 -> Child]}

BoundMatchers == Plain \cup Composite

\* the candidates a bound matcher accepts: its type T is fixed at construction
Candidates(m) ==
    IF m.f = "is_some" THEN Options
    ELSE IF m.f \in {"is_ok", "is_err"} THEN Results
    ELSE Vals

\* the callable after an invocation that consumed it
Called_once(m) == Unbound

\* the callable after an invocation: it is called by reference, and keeps
\* the values it captured
Called(m) == m

Construct ==
    /\ bound = Unbound
    /\ history = <<>>
    /\ \E m \in BoundMatchers :
           /\ bound' = Bind(m.f, m.p)
           /\ captured' = m.p
    /\ UNCHANGED history
    /\ UNCHANGED callVars

Invoke ==
    /\ bound # Unbound
    /\ Len(history) < MaxCalls
    /\ \E x \in Candidates(bound) :
           history' = Append(history, <<x, Apply(bound, x)>>)
    /\ bound' = Called(bound)
    /\ UNCHANGED captured
    /\ UNCHANGED callVars

NextBound ==
    \/ Construct
    \/ Invoke

SpecBound == Init /\ [][NextBound]_vars

(***************************************************************************)
(* Properties.                                                             *)
(***************************************************************************)
Returned(f) == pc = "done" /\ fn = f

\* whether child m decides a call of f on candidate x: a non-match decides
\* all_of, a match decides any_of
Decides(f, m, x) == IF f = "all_of" THEN ~Apply(m, x) ELSE Apply(m, x)

\* the permutations of a sequence
Perms(s) ==
    LET n == Len(s)
        Bijections == {q \in [1..n -> 1..n] : \A i, j \in 1..n : q[i] = q[j] => i = j}
    IN  {[i \in 1..n |-> s[q[i]]] : q \in Bijections}

\* C1: all_of(x, ms) returns true iff every child of ms returns true on x;
\* over the empty list it returns true.
C1_AllOfIffEveryChild ==
    Returned("all_of") =>
        /\ ret = (\A i \in 1..Len(params[1].items) : Apply(params[1].items[i], arg))
        /\ params[1].items = <<>> => ret = TRUE

\* all_of returned false on a list whose first child matches
C1_Witness ==
    /\ Returned("all_of")
    /\ Len(params[1].items) >= 2
    /\ Apply(params[1].items[1], arg)
    /\ ret = FALSE

\* C2: any_of(x, ms) returns true iff at least one child of ms returns true
\* on x; over the empty list it returns false.
C2_AnyOfIffSomeChild ==
    Returned("any_of") =>
        /\ ret = (\E i \in 1..Len(params[1].items) : Apply(params[1].items[i], arg))
        /\ params[1].items = <<>> => ret = FALSE

\* any_of returned true on a list whose first child does not match
C2_Witness ==
    /\ Returned("any_of")
    /\ Len(params[1].items) >= 2
    /\ ~Apply(params[1].items[1], arg)
    /\ ret = TRUE

\* C3: within one evaluation of all_of / any_of the children are invoked
\* left to right, each at most once; no child is invoked after the first
\* deciding child; when no child decides, every child is invoked exactly once.
C3_LeftToRightShortCircuit ==
    fn \in {"all_of", "any_of"} =>
        LET ms == params[1].items
            Deciding == {k \in 1..Len(ms) : Decides(fn, ms[k], arg)}
        IN  /\ Len(trace) <= Len(ms)
            /\ \A k \in 1..Len(trace) :
                   trace[k] = Invocation("matchers", k, Apply(ms[k], arg))
            /\ \A k \in 1..(Len(trace) - 1) : k \notin Deciding
            /\ pc = "done" =>
                   IF Deciding = {}
                   THEN Len(trace) = Len(ms)
                   ELSE /\ Len(trace) \in Deciding
                        /\ \A k \in Deciding : Len(trace) <= k

\* a call returned at a deciding child that has children before and after it
C3_Witness ==
    /\ pc = "done"
    /\ fn \in {"all_of", "any_of"}
    /\ Len(trace) = 2
    /\ Len(params[1].items) = 3
    /\ Decides(fn, params[1].items[3], arg)

\* C4: the result of all_of and of any_of is the same on every permutation
\* of the child list.
C4_OrderIndependent ==
    /\ Returned("all_of") => \A t \in Perms(params[1].items) : all_of(arg, t) = ret
    /\ Returned("any_of") => \A t \in Perms(params[1].items) : any_of(arg, t) = ret

\* a call whose first child decides and whose second does not: the reversed
\* list is evaluated further
C4_Witness ==
    /\ pc = "done"
    /\ fn \in {"all_of", "any_of"}
    /\ Len(params[1].items) = 2
    /\ Decides(fn, params[1].items[1], arg)
    /\ ~Decides(fn, params[1].items[2], arg)

\* C5: is_some / is_ok / is_err dispatch on the variant: on the matching
\* variant the result is the inner matcher's on the payload; on the other
\* variant the result is false and the inner matcher is not invoked.
C5_UnwrapDispatch ==
    LET Delegated == ret = Apply(params[1], arg.v)
                       /\ trace = <<Invocation("matcher", 1, ret)>>
        Refused == ret = FALSE /\ trace = <<>>
    IN  /\ Returned("is_some") => IF arg.tag = "Some" THEN Delegated ELSE Refused
        /\ Returned("is_ok") => IF arg.tag = "Ok" THEN Delegated ELSE Refused
        /\ Returned("is_err") => IF arg.tag = "Err" THEN Delegated ELSE Refused

\* is_some of a matcher that matches everything, called on None
C5_Witness ==
    /\ Returned("is_some")
    /\ arg = None
    /\ params[1] = Bind("any", <<>>)
    /\ ret = FALSE

\* C6: between_inc(x, lo, hi) equals ge(x, lo) /\ le(x, hi), also when
\* lo > hi and when x is incomparable with lo or hi.
C6_BetweenIncIsGeAndLe ==
    Returned("between_inc") =>
        ret = (ge(arg, params[1]) /\ le(arg, params[2]))

\* between_inc called on an incomparable candidate
C6_Witness ==
    /\ Returned("between_inc")
    /\ arg = NaN
    /\ params[1] = Num(0)
    /\ params[2] = Num(1)
    /\ ret = FALSE

\* the float format of a float matcher
FormatOf(f) == IF f \in {"f32_eq", "nan_sensitive_f32_eq"} THEN F32 ELSE F64

\* C7: when candidate and target are both NaN, f32_eq / f64_eq return false
\* and the nan_sensitive variants return true, without consulting the ULP
\* comparison; in every other case all variants return the result of the
\* 2-ULP comparison, so the two variants of a width agree.
C7_FloatEqNaN ==
    LET fmt == FormatOf(fn)
        BothNaN == is_nan(fmt, arg.bits) /\ is_nan(fmt, params[1].bits)
        Ulps == approx_eq_ulps(fmt, arg.bits, params[1].bits, 2)
        Consulted == ret = Ulps /\ trace = <<Invocation("approx_eq_ulps", 1, Ulps)>>
    IN  /\ (Returned("f32_eq") \/ Returned("f64_eq")) =>
               IF BothNaN THEN ret = FALSE /\ trace = <<>> ELSE Consulted
        /\ (Returned("nan_sensitive_f32_eq") \/ Returned("nan_sensitive_f64_eq")) =>
               IF BothNaN THEN ret = TRUE /\ trace = <<>> ELSE Consulted
        /\ (Returned("f32_eq") /\ ~BothNaN) =>
               ret = nan_sensitive_f32_eq(arg.bits, params[1].bits).ret
        /\ (Returned("f64_eq") /\ ~BothNaN) =>
               ret = nan_sensitive_f64_eq(arg.bits, params[1].bits).ret

\* f32_eq bound to a NaN, called on the same NaN
C7_Witness ==
    /\ Returned("f32_eq")
    /\ is_nan(F32, arg.bits)
    /\ arg.bits = params[1].bits
    /\ ret = FALSE

\* the result of eq_nocase / ne_nocase in terms of the folded candidate
NocaseFoldsCandidateOnly ==
    /\ Returned("eq_nocase") => ret = (to_lowercase(arg.chars) = params[1].chars)
    /\ Returned("ne_nocase") => ret = ~eq_nocase(arg.chars, params[1].chars)

C9_DoubleNegation ==
    Returned("not") =>
        /\ ret = ~Apply(params[1], arg)
        /\ params[1].f = "not" => ret = Apply(params[1].p[1], arg)

\* not called on the negation of a matcher that matches the candidate
C9_Witness ==
    /\ Returned("not")
    /\ params[1].f = "not"
    /\ params[1].p[1].f = "eq"
    /\ ret = TRUE

====
